---- MODULE Spec2Model ----
(***************************************************************************)
(* nix-server-conf-manager: the update-detection-and-apply pipeline of     *)
(* func main, in its two builds:                                           *)
(*   build = "main"  src/main.go            (ls-remote; fetch + rev-parse  *)
(*                                           <branch>; nothing persisted)  *)
(*   build = "part"  src/unnamed/part_000   (fetch + rev-parse             *)
(*                                           origin/<branch>; rev-parse    *)
(*                                           HEAD; saveConfig)             *)
(* Every external command (git, nixos-rebuild, the file write, the webhook *)
(* POST) is one atomic step of the run; between two steps the remote may   *)
(* move and somebody may edit the working tree.  Message texts are kept as *)
(* the distinctive part of their format string.                            *)
(***************************************************************************)
EXTENDS Naturals, Sequences, FiniteSets

\* ---------------------------------------------------------------- bounds
NumCommits == 2
MaxRuns == 2
MaxEnvEvents == 1

Commits == 1..NumCommits
\* the empty string: a hash that was not resolved, a ref that does not
\* exist, an empty last_commit_hash
NoRef == 0
Refs == Commits \cup {NoRef}
\* config.json after os.Create truncated it and the encode failed: no
\* commit identifier, and not decodable by loadConfig
Truncated == NumCommits + 1

Builds == {"main", "part"}
ChangeKinds == {"untracked", "modified", "staged"}
PostResults == {"ok", "http_error", "transport_error"}
SaveResults == {"ok", "create_err", "encode_err"}

\* ------------------------------------------------------ message texts
MsgNotGitRepo == "is not a Git repo"
MsgStatusFailed == "Failed to check Git status"
MsgSkipping == "has uncommitted changes. Skipping rebuild."
MsgRemoteFailed == "Failed to get remote hash"
MsgLocalFailed == "Failed to get local hash"
MsgPullFailed == "Failed to pull repo"
MsgRebuildFailed == "NixOS rebuild failed"
MsgSuccess == "NixOS rebuild successful"
LogWebhookFailed == "failed to send Discord webhook"
LogSaveFailed == "Failed to save config"
LogNoChanges == "No changes detected."

VARIABLES
    build,        \* which main package runs
    isRepo,       \* <RepoPath>/.git exists and is a directory
    remoteTip,    \* the tracked branch's tip on origin (NoRef: no such branch)
    trackingRef,  \* refs/remotes/origin/<branch> in the local repository
    branchRef,    \* refs/heads/<branch> in the local repository
    head,         \* the commit HEAD resolves to
    onBranch,     \* HEAD is checked out on the tracked branch
    changes,      \* uncommitted entries of the working tree
    configFile,   \* last_commit_hash as stored in the configuration file
    pc,           \* position of the run in main
    cfgLast,      \* cfg.LastCommitHash
    isClean,      \* main's isClean
    remoteHash,   \* main's remoteHash
    localHash,    \* main's localHash
    outcome,      \* the branch of main the run left by
    pending,      \* the message of the sendDiscord call being made
    webhook,      \* the POSTs made by sendDiscord in this run, with their result
    logs,         \* log lines of this run
    calls,        \* the external calls of this run, in order
    exit,         \* process exit status
    runs,         \* number of runs started
    prev,         \* outcome of the previous run
    atStart,      \* repository and configuration as the run found them
    events        \* times the remote moved or the tree was edited from outside

repoVars == <<isRepo, remoteTip, trackingRef, branchRef, head, onBranch, changes>>
runVars == <<pc, cfgLast, isClean, remoteHash, localHash, outcome, pending,
             webhook, logs, calls, exit>>
vars == <<build, isRepo, remoteTip, trackingRef, branchRef, head, onBranch,
          changes, configFile, pc, cfgLast, isClean, remoteHash, localHash,
          outcome, pending, webhook, logs, calls, exit, runs, prev, atStart,
          events>>

Call(fn, cmd, ok, val) == [fn |-> fn, cmd |-> cmd, ok |-> ok, val |-> val]

Max(S) == CHOOSE x \in S : \A y \in S : y <= x

Snapshot(cf, h, b, t, ch, e, pe) ==
    [configFile |-> cf, head |-> h, branchRef |-> b, trackingRef |-> t,
     changes |-> ch, events |-> e, prevEvents |-> pe]

\* ------------------------------------------------------------------ Init
Init ==
    /\ build \in Builds
    /\ isRepo \in BOOLEAN
    /\ remoteTip \in Refs
    /\ trackingRef \in Refs
    /\ branchRef \in Refs
    /\ head \in Commits
    \* a commit identifier is only a name: the commits are numbered in the
    \* order head, branchRef, trackingRef, remoteTip first mention them
    /\ head = 1
    /\ branchRef <= head + 1
    /\ trackingRef <= Max({head, branchRef}) + 1
    /\ remoteTip <= Max({head, branchRef, trackingRef}) + 1
    /\ onBranch \in BOOLEAN
    /\ onBranch => head = branchRef
    /\ changes \in {{}, {"modified"}}
    \* without a .git directory there is no repository state to vary
    /\ ~isRepo => /\ remoteTip = NoRef /\ trackingRef = NoRef /\ branchRef = NoRef
                  /\ head = 1 /\ ~onBranch /\ changes = {}
    /\ configFile \in {NoRef, 1}
    /\ pc = "start"
    /\ cfgLast = NoRef
    /\ isClean = FALSE
    /\ remoteHash = NoRef
    /\ localHash = NoRef
    /\ outcome = "none"
    /\ pending = "none"
    /\ webhook = <<>>
    /\ logs = <<>>
    /\ calls = <<>>
    /\ exit = "running"
    /\ runs = 1
    /\ prev = "none"
    /\ events = 0
    /\ atStart = Snapshot(configFile, head, branchRef, trackingRef, changes, events, events)

\* ------------------------------------------------------------- helpers
\* mutant: a failure branch that returns without calling sendDiscord
FailSilently(tag, message) ==
    /\ outcome' = tag
    /\ pending' = message
    /\ pc' = "done"

\* a failure branch of main: the message is handed to sendDiscord, then return
Fail(tag, message) ==
    /\ outcome' = tag
    /\ pending' = message
    /\ pc' = "notify"

\* the run goes on to its next external call
Proceed(next) ==
    /\ pc' = next
    /\ UNCHANGED <<outcome, pending>>

\* mutant: the validator's answer is not acted on
ValidateIgnored(found) == Proceed("status")

\* if !isGitRepo(cfg.RepoPath) { sendDiscord(...); log.Fatalf(...) }
ValidateBranch(found) ==
    IF found THEN Proceed("status") ELSE Fail("NotAVCSRepo", MsgNotGitRepo)

\* mutant: the !isClean branch is missing
StatusBranchNoSkip(ran, clean, next) ==
    IF ~ran THEN Fail("StatusQueryError", MsgStatusFailed) ELSE Proceed(next)

\* if err != nil { sendDiscord; return }; if !isClean { sendDiscord; return }
StatusBranch(ran, clean, next) ==
    IF ~ran THEN Fail("StatusQueryError", MsgStatusFailed)
    ELSE IF ~clean THEN Fail("DirtyWorkingTree", MsgSkipping)
    ELSE Proceed(next)

\* mutant: a pullRepo command that failed sends the run back to the fetch
SyncRetried(ok, next) == Proceed(IF ok THEN next ELSE "pull_fetch")

\* mutant: the error of a pullRepo command is dropped
SyncErrorIgnored(ok, next) == Proceed(next)

\* if err := pullRepo(...); err != nil { sendDiscord; return }, where pullRepo
\* returns at the first of its two commands that fails
SyncBranch(ok, next) ==
    IF ok THEN Proceed(next) ELSE Fail("SyncFailure", MsgPullFailed)

\* mutant: untracked files are not counted (git status -uno)
PorcelainIgnoresUntracked(entries) == entries \ {"untracked"} = {}

\* strings.TrimSpace(out) == "" on the output of git status --porcelain
PorcelainIsEmpty(entries) == entries = {}

\* mutant: the fetch leaves the remote-tracking ref as it was
StaleRef(tip, old) == old

\* git fetch origin <branch>: refreshes the remote-tracking ref (the remote's
\* default refspec maps refs/heads/* to refs/remotes/origin/*)
FetchedRef(tip, old) == tip

\* mutant: the gate syncs only when the remote is the newer of the two
\* (commits numbered by age): fast-forward only
GateFastForwardOnly(r, l) == r <= l

\* mutant: the gate compares against the recorded last-applied revision
GateAgainstLast(r, l) == r = cfgLast

\* the comparison of main: remoteHash == localHash
GateEqual(r, l) == r = l

\* mutant: the local tip is what gets recorded as applied
AppliedLocal(r, l) == l

\* cfg.LastCommitHash = remoteHash
AppliedRevision(r, l) == r

\* ------------------------------------------------------------- actions
LoadConfig ==
    /\ pc = "start"
    /\ \E readable \in BOOLEAN :
        IF readable /\ configFile # Truncated
        THEN /\ cfgLast' = configFile
             /\ pc' = "validate"
             /\ UNCHANGED <<outcome, exit>>
        ELSE /\ outcome' = "ConfigurationError"
             /\ pc' = "done"
             /\ exit' = "exit1"
             /\ UNCHANGED cfgLast
    /\ UNCHANGED <<build, repoVars, configFile, isClean, remoteHash, localHash,
                   pending, webhook, logs, calls, runs, prev, atStart, events>>

Validate ==
    /\ pc = "validate"
    /\ calls' = Append(calls, Call("isGitRepo", "stat", isRepo, NoRef))
    /\ ValidateBranch(isRepo)
    /\ UNCHANGED <<build, repoVars, configFile, cfgLast, isClean, remoteHash,
                   localHash, webhook, logs, exit, runs, prev, atStart, events>>

CheckClean ==
    /\ pc = "status"
    /\ \E ran \in BOOLEAN :
        /\ calls' = Append(calls, Call("isRepoClean", "status", ran, NoRef))
        /\ isClean' = (ran /\ PorcelainIsEmpty(changes))
        /\ StatusBranch(ran, ran /\ PorcelainIsEmpty(changes),
                        IF build = "main" THEN "ls_remote" ELSE "remote_fetch")
    /\ UNCHANGED <<build, repoVars, configFile, cfgLast, remoteHash, localHash,
                   webhook, logs, exit, runs, prev, atStart, events>>

\* getRemoteHash of src/main.go: git ls-remote origin <branch>, first field
\* of the output.  The branch name is taken to match one ref of the remote,
\* so the first field is that branch's tip; no output is the error of line 47.
LsRemote ==
    /\ pc = "ls_remote"
    /\ \E ran \in BOOLEAN :
        LET found == ran /\ remoteTip # NoRef IN
        /\ calls' = Append(calls, Call("getRemoteHash", "ls-remote", found,
                                       IF ran THEN remoteTip ELSE NoRef))
        /\ IF found
           THEN /\ remoteHash' = remoteTip
                /\ pc' = "local_fetch"
                /\ UNCHANGED <<outcome, pending>>
           ELSE /\ Fail("ComparatorFailureRemote", MsgRemoteFailed)
                /\ UNCHANGED remoteHash
    /\ UNCHANGED <<build, repoVars, configFile, cfgLast, isClean, localHash,
                   webhook, logs, exit, runs, prev, atStart, events>>

\* getRemoteHash of part_000, first command: git fetch origin <branch>
RemoteFetch ==
    /\ pc = "remote_fetch"
    /\ \E ran \in BOOLEAN :
        LET fetched == ran /\ remoteTip # NoRef IN
        /\ calls' = Append(calls, Call("getRemoteHash", "fetch", fetched,
                                       IF ran THEN remoteTip ELSE NoRef))
        /\ IF fetched
           THEN /\ trackingRef' = FetchedRef(remoteTip, trackingRef)
                /\ pc' = "remote_revparse"
                /\ UNCHANGED <<outcome, pending>>
           ELSE /\ Fail("ComparatorFailureRemote", MsgRemoteFailed)
                /\ UNCHANGED trackingRef
    /\ UNCHANGED <<build, isRepo, remoteTip, branchRef, head, onBranch, changes,
                   configFile, cfgLast, isClean, remoteHash, localHash,
                   webhook, logs, exit, runs, prev, atStart, events>>

\* getRemoteHash of part_000, second command: git rev-parse origin/<branch>
RemoteRevParse ==
    /\ pc = "remote_revparse"
    /\ \E ran \in BOOLEAN :
        LET resolved == ran /\ trackingRef # NoRef IN
        /\ calls' = Append(calls, Call("getRemoteHash", "rev-parse", resolved,
                                       IF ran THEN trackingRef ELSE NoRef))
        /\ IF resolved
           THEN /\ remoteHash' = trackingRef
                /\ pc' = "local_head"
                /\ UNCHANGED <<outcome, pending>>
           ELSE /\ Fail("ComparatorFailureRemote", MsgRemoteFailed)
                /\ UNCHANGED remoteHash
    /\ UNCHANGED <<build, repoVars, configFile, cfgLast, isClean, localHash,
                   webhook, logs, exit, runs, prev, atStart, events>>

\* getLocalHash of src/main.go, first command: git fetch origin <branch>
LocalFetch ==
    /\ pc = "local_fetch"
    /\ \E ran \in BOOLEAN :
        LET fetched == ran /\ remoteTip # NoRef IN
        /\ calls' = Append(calls, Call("getLocalHash", "fetch", fetched,
                                       IF ran THEN remoteTip ELSE NoRef))
        /\ IF fetched
           THEN /\ trackingRef' = FetchedRef(remoteTip, trackingRef)
                /\ pc' = "local_branch"
                /\ UNCHANGED <<outcome, pending>>
           ELSE /\ Fail("ComparatorFailureLocal", MsgLocalFailed)
                /\ UNCHANGED trackingRef
    /\ UNCHANGED <<build, isRepo, remoteTip, branchRef, head, onBranch, changes,
                   configFile, cfgLast, isClean, remoteHash, localHash,
                   webhook, logs, exit, runs, prev, atStart, events>>

\* getLocalHash of src/main.go, second command: git rev-parse <branch>,
\* which resolves the local branch of that name whatever HEAD is on
LocalRevParseBranch ==
    /\ pc = "local_branch"
    /\ \E ran \in BOOLEAN :
        LET resolved == ran /\ branchRef # NoRef IN
        /\ calls' = Append(calls, Call("getLocalHash", "rev-parse", resolved,
                                       IF ran THEN branchRef ELSE NoRef))
        /\ IF resolved
           THEN /\ localHash' = branchRef
                /\ pc' = "gate"
                /\ UNCHANGED <<outcome, pending>>
           ELSE /\ Fail("ComparatorFailureLocal", MsgLocalFailed)
                /\ UNCHANGED localHash
    /\ UNCHANGED <<build, repoVars, configFile, cfgLast, isClean, remoteHash,
                   webhook, logs, exit, runs, prev, atStart, events>>

\* getLocalHash of part_000: git rev-parse HEAD
LocalRevParseHead ==
    /\ pc = "local_head"
    /\ \E ran \in BOOLEAN :
        /\ calls' = Append(calls, Call("getLocalHash", "rev-parse", ran,
                                       IF ran THEN head ELSE NoRef))
        /\ IF ran
           THEN /\ localHash' = head
                /\ pc' = "gate"
                /\ UNCHANGED <<outcome, pending>>
           ELSE /\ Fail("ComparatorFailureLocal", MsgLocalFailed)
                /\ UNCHANGED localHash
    /\ UNCHANGED <<build, repoVars, configFile, cfgLast, isClean, remoteHash,
                   webhook, logs, exit, runs, prev, atStart, events>>

\* mutant: the no-change branch reports to the operator as well
GateBranchNotifies(equal) ==
    IF equal
    THEN /\ outcome' = "NoChange"
         /\ pending' = LogNoChanges
         /\ pc' = "notify"
         /\ UNCHANGED <<logs, exit>>
    ELSE /\ pc' = "pull_fetch"
         /\ UNCHANGED <<outcome, logs, exit, pending>>

\* if remoteHash == localHash { log.Printf("No changes detected."); return }
GateBranch(equal) ==
    IF equal
    THEN /\ outcome' = "NoChange"
         /\ logs' = Append(logs, LogNoChanges)
         /\ pc' = "done"
         /\ exit' = "exit0"
         /\ UNCHANGED pending
    ELSE /\ pc' = "pull_fetch"
         /\ UNCHANGED <<outcome, logs, exit, pending>>

\* mutant: the no-change branch records the tip it compared
ChangeGateRecordsTip ==
    /\ pc = "gate"
    /\ GateBranch(GateEqual(remoteHash, localHash))
    /\ configFile' = IF GateEqual(remoteHash, localHash) THEN remoteHash ELSE configFile
    /\ UNCHANGED <<build, repoVars, cfgLast, isClean, remoteHash,
                   localHash, webhook, calls, runs, prev, atStart, events>>

ChangeGate ==
    /\ pc = "gate"
    /\ GateBranch(GateEqual(remoteHash, localHash))
    /\ UNCHANGED <<build, repoVars, configFile, cfgLast, isClean, remoteHash,
                   localHash, webhook, calls, runs, prev, atStart, events>>

\* pullRepo, first command: git fetch origin <branch>
PullFetch ==
    /\ pc = "pull_fetch"
    /\ \E ran \in BOOLEAN :
        LET fetched == ran /\ remoteTip # NoRef IN
        /\ calls' = Append(calls, Call("pullRepo", "fetch", fetched,
                                       IF ran THEN remoteTip ELSE NoRef))
        /\ trackingRef' = IF fetched THEN FetchedRef(remoteTip, trackingRef)
                          ELSE trackingRef
        /\ SyncBranch(fetched, "pull_reset")
    /\ UNCHANGED <<build, isRepo, remoteTip, branchRef, head, onBranch, changes,
                   configFile, cfgLast, isClean, remoteHash, localHash,
                   webhook, logs, exit, runs, prev, atStart, events>>

\* pullRepo, second command: git reset --hard origin/<branch>.  HEAD and the
\* branch it is on move to the remote-tracking ref; modified and staged
\* entries are discarded, untracked files stay.
PullReset ==
    /\ pc = "pull_reset"
    /\ \E ran \in BOOLEAN :
        LET done == ran /\ trackingRef # NoRef IN
        /\ calls' = Append(calls, Call("pullRepo", "reset", done,
                                       IF done THEN trackingRef ELSE NoRef))
        /\ IF done
           THEN /\ head' = trackingRef
                /\ branchRef' = IF onBranch THEN trackingRef ELSE branchRef
                /\ changes' = changes \cap {"untracked"}
           ELSE UNCHANGED <<head, branchRef, changes>>
        /\ SyncBranch(done, "rebuild")
    /\ UNCHANGED <<build, isRepo, remoteTip, trackingRef, onBranch,
                   configFile, cfgLast, isClean, remoteHash, localHash,
                   webhook, logs, exit, runs, prev, atStart, events>>

\* mutant: a failed rebuild undoes the reset
RebuildWithRollback ==
    /\ pc = "rebuild"
    /\ \E ran \in BOOLEAN :
        /\ calls' = Append(calls, Call("rebuildNixOS", "nixos-rebuild", ran, head))
        /\ head' = IF ran THEN head ELSE atStart.head
        /\ branchRef' = IF ran THEN branchRef ELSE atStart.branchRef
        /\ IF ~ran
           THEN Fail("RebuildFailure", MsgRebuildFailed)
           ELSE IF build = "part"
                THEN Proceed("persist")
                ELSE /\ outcome' = "Success"
                     /\ pending' = MsgSuccess
                     /\ pc' = "notify"
    /\ UNCHANGED <<build, isRepo, remoteTip, trackingRef, onBranch, changes,
                   configFile, cfgLast, isClean, remoteHash,
                   localHash, webhook, logs, exit, runs, prev, atStart, events>>

\* rebuildNixOS: nixos-rebuild switch, run against the checked-out tree
Rebuild ==
    /\ pc = "rebuild"
    /\ \E ran \in BOOLEAN :
        /\ calls' = Append(calls, Call("rebuildNixOS", "nixos-rebuild", ran, head))
        /\ IF ~ran
           THEN Fail("RebuildFailure", MsgRebuildFailed)
           ELSE IF build = "part"
                THEN /\ pc' = "persist"
                     /\ UNCHANGED <<outcome, pending>>
                ELSE /\ outcome' = "Success"
                     /\ pending' = MsgSuccess
                     /\ pc' = "notify"
    /\ UNCHANGED <<build, repoVars, configFile, cfgLast, isClean, remoteHash,
                   localHash, webhook, logs, exit, runs, prev, atStart, events>>

\* saveConfig: os.Create truncates config.json, then the encoder writes it
SavedFile(old, new, result) ==
    IF result = "ok" THEN new
    ELSE IF result = "create_err" THEN old
    ELSE Truncated

\* cfg.LastCommitHash = remoteHash; saveConfig(cfg) (part_000 only)
Persist ==
    /\ pc = "persist"
    /\ cfgLast' = AppliedRevision(remoteHash, localHash)
    /\ \E result \in SaveResults :
        /\ calls' = Append(calls, Call("saveConfig", "write", result = "ok", cfgLast'))
        /\ configFile' = SavedFile(configFile, cfgLast', result)
        /\ logs' = IF result = "ok" THEN logs ELSE Append(logs, LogSaveFailed)
    /\ outcome' = "Success"
    /\ pending' = MsgSuccess
    /\ pc' = "notify"
    /\ UNCHANGED <<build, repoVars, isClean, remoteHash, localHash, webhook,
                   exit, runs, prev, atStart, events>>

\* sendDiscord: POST the message; a transport error is logged, nothing else
sendDiscord(message, result) ==
    /\ webhook' = Append(webhook, [msg |-> message, result |-> result])
    /\ logs' = IF result = "transport_error"
               THEN Append(logs, LogWebhookFailed) ELSE logs

\* mutant: every failure path ends with log.Fatalf
ExitFatalOnFailure(tag, result) == IF tag = "Success" THEN "exit0" ELSE "exit1"

\* mutant: a POST that failed ends the process
ExitFatalOnPostError(tag, result) ==
    IF tag = "NotAVCSRepo" \/ result = "transport_error" THEN "exit1" ELSE "exit0"

\* what follows every sendDiscord call of main: log.Fatalf after the
\* not-a-repo message, return (or the end of main) after every other
ExitAfterNotify(tag, result) == IF tag = "NotAVCSRepo" THEN "exit1" ELSE "exit0"

Notify ==
    /\ pc = "notify"
    /\ \E result \in PostResults :
        /\ sendDiscord(pending, result)
        /\ exit' = ExitAfterNotify(outcome, result)
    /\ pc' = "done"
    /\ UNCHANGED <<build, repoVars, configFile, cfgLast, isClean, remoteHash,
                   localHash, outcome, pending, calls, runs, prev, atStart,
                   events>>

\* the external trigger (cron, timer, manual) starts the next run
StartRun ==
    /\ pc = "done"
    /\ runs < MaxRuns
    /\ runs' = runs + 1
    /\ prev' = outcome
    /\ atStart' = Snapshot(configFile, head, branchRef, trackingRef, changes, events,
                           atStart.events)
    /\ pc' = "start"
    /\ cfgLast' = NoRef
    /\ isClean' = FALSE
    /\ remoteHash' = NoRef
    /\ localHash' = NoRef
    /\ outcome' = "none"
    /\ pending' = "none"
    /\ webhook' = <<>>
    /\ logs' = <<>>
    /\ calls' = <<>>
    /\ exit' = "running"
    /\ UNCHANGED <<build, repoVars, configFile, events>>

\* A move of the remote shows only in the next command that contacts the
\* remote, an edit of the tree only in the next command that reads or
\* writes the tree: each is taken right before such a command (an event
\* between two runs is one before the next run's command).
ContactsRemote == {"ls_remote", "remote_fetch", "local_fetch", "pull_fetch"}
TouchesTree == {"status", "pull_reset", "rebuild"}

\* somebody pushes to (or force-pushes) the tracked branch on origin
RemoteAdvance ==
    /\ isRepo
    /\ pc \in ContactsRemote
    /\ events < MaxEnvEvents
    /\ \E c \in Commits \ {remoteTip} : remoteTip' = c
    /\ events' = events + 1
    /\ UNCHANGED <<build, isRepo, trackingRef, branchRef, head, onBranch, changes,
                   configFile, runVars, runs, prev, atStart>>

\* somebody edits, adds or stages a file in the working tree
TreeEdit ==
    /\ isRepo
    /\ pc \in TouchesTree
    /\ events < MaxEnvEvents
    /\ \E k \in ChangeKinds \ changes : changes' = changes \cup {k}
    /\ events' = events + 1
    /\ UNCHANGED <<build, isRepo, remoteTip, trackingRef, branchRef, head, onBranch,
                   configFile, runVars, runs, prev, atStart>>

Next ==
    \/ LoadConfig
    \/ Validate
    \/ CheckClean
    \/ LsRemote
    \/ RemoteFetch
    \/ RemoteRevParse
    \/ LocalFetch
    \/ LocalRevParseBranch
    \/ LocalRevParseHead
    \/ ChangeGate
    \/ PullFetch
    \/ PullReset
    \/ Rebuild
    \/ Persist
    \/ Notify
    \/ StartRun
    \/ RemoteAdvance
    \/ TreeEdit

Spec == Init /\ [][Next]_vars

\* the steps of a run itself: main and the calls it blocks on
RunNext ==
    \/ LoadConfig
    \/ Validate
    \/ CheckClean
    \/ LsRemote
    \/ RemoteFetch
    \/ RemoteRevParse
    \/ LocalFetch
    \/ LocalRevParseBranch
    \/ LocalRevParseHead
    \/ ChangeGate
    \/ PullFetch
    \/ PullReset
    \/ Rebuild
    \/ Persist
    \/ Notify

\* every external call main blocks on returns, so a run that can take a step
\* takes one; the trigger of the next run and the outside world owe nothing
FairSpec == Init /\ [][Next]_vars /\ WF_vars(RunNext)

Outcomes == {"none", "ConfigurationError", "NotAVCSRepo", "StatusQueryError",
             "DirtyWorkingTree", "ComparatorFailureRemote", "ComparatorFailureLocal",
             "NoChange", "SyncFailure", "RebuildFailure", "Success"}

TypeOK ==
    /\ build \in Builds
    /\ isRepo \in BOOLEAN
    /\ remoteTip \in Refs /\ trackingRef \in Refs /\ branchRef \in Refs
    /\ head \in Commits
    /\ onBranch \in BOOLEAN
    /\ onBranch => head = branchRef
    /\ changes \subseteq ChangeKinds
    /\ configFile \in Refs \cup {Truncated}
    /\ cfgLast \in Refs
    /\ isClean \in BOOLEAN
    /\ remoteHash \in Refs /\ localHash \in Refs
    /\ outcome \in Outcomes
    /\ exit \in {"running", "exit0", "exit1"}
    /\ runs \in 1..MaxRuns
    /\ prev \in Outcomes
    /\ events \in 0..MaxEnvEvents

\* ------------------------------------------------------------ claims
\* the messages handed to the webhook in this run, in order
MsgsSent == [i \in DOMAIN webhook |-> webhook[i].msg]

\* nothing has been handed to the webhook before the run is over, and at
\* its end exactly the one message m has been
OnlyNotification(m) ==
    IF pc = "done" THEN MsgsSent = <<m>> ELSE webhook = <<>>

\* git status ran and isRepoClean returned (false, nil)
DirtyReported ==
    \E i \in DOMAIN calls :
        calls[i].fn = "isRepoClean" /\ calls[i].ok /\ ~isClean

\* C1: once the cleanliness check has reported the tree dirty, the run makes
\* no call but the validator's and the status query (no ls-remote, fetch,
\* rev-parse, reset, rebuild, save), resolves no revision, leaves the stored
\* revision alone, and sends exactly the 'Skipping rebuild' message.
C1_DirtyTreeSkips ==
    DirtyReported =>
        /\ \A i \in DOMAIN calls : calls[i].fn \in {"isGitRepo", "isRepoClean"}
        /\ remoteHash = NoRef
        /\ localHash = NoRef
        /\ configFile = atStart.configFile
        /\ head = atStart.head
        /\ outcome = "DirtyWorkingTree"
        /\ OnlyNotification(MsgSkipping)

C1_Witness ==
    /\ pc = "done"
    /\ DirtyReported
    /\ changes = {"untracked"}
    /\ Len(webhook) = 1

\* os.Stat found no .git directory
NotRepoReported ==
    /\ calls # <<>>
    /\ calls[1].fn = "isGitRepo"
    /\ ~calls[1].ok

\* C2: when isGitRepo returns false, the stat is the run's only call (no
\* status, ls-remote, fetch, rev-parse, reset, rebuild or save) and the
\* webhook gets exactly the 'is not a Git repo' message.
C2_NotARepoStops ==
    NotRepoReported =>
        /\ Len(calls) = 1
        /\ configFile = atStart.configFile
        /\ outcome = "NotAVCSRepo"
        /\ OnlyNotification(MsgNotGitRepo)

C2_Witness ==
    /\ pc = "done"
    /\ NotRepoReported
    /\ Len(webhook) = 1
    /\ exit = "exit1"

\* both getRemoteHash and getLocalHash returned a hash, and the same one
TipsResolvedEqual ==
    /\ remoteHash # NoRef
    /\ localHash # NoRef
    /\ remoteHash = localHash

SyncSteps == {"pullRepo", "rebuildNixOS", "saveConfig"}

\* C3: when both tips resolve and are equal, the run ends NoChange: nothing
\* is sent to the webhook and pullRepo, rebuildNixOS and saveConfig are never
\* called, so HEAD and the stored revision stay as the run found them.
C3_EqualTipsNoChange ==
    TipsResolvedEqual =>
        /\ pc \in {"gate", "done"}
        /\ pc = "done" => outcome = "NoChange" /\ exit = "exit0"
        /\ webhook = <<>>
        /\ \A i \in DOMAIN calls : calls[i].fn \notin SyncSteps
        /\ head = atStart.head
        /\ configFile = atStart.configFile

C3_Witness ==
    /\ pc = "done"
    /\ TipsResolvedEqual
    /\ outcome = "NoChange"
    /\ cfgLast # remoteHash

Stages == {"isGitRepo", "isRepoClean", "getRemoteHash", "getLocalHash",
           "pullRepo", "rebuildNixOS"}

\* the message that names a stage
StageMsg(fn) ==
    CASE fn = "isGitRepo" -> MsgNotGitRepo
      [] fn = "isRepoClean" -> MsgStatusFailed
      [] fn = "getRemoteHash" -> MsgRemoteFailed
      [] fn = "getLocalHash" -> MsgLocalFailed
      [] fn = "pullRepo" -> MsgPullFailed
      [] fn = "rebuildNixOS" -> MsgRebuildFailed

\* C4: a failure of the validator, the status query, either resolution, the
\* sync or the rebuild is the last call of its run (no later stage runs,
\* nothing is saved) and the run sends exactly one message, the one naming
\* that stage.
C4_FirstFailureStopsRun ==
    \A i \in DOMAIN calls :
        (calls[i].fn \in Stages /\ ~calls[i].ok) =>
            /\ i = Len(calls)
            /\ pc \in {"notify", "done"}
            /\ configFile = atStart.configFile
            /\ OnlyNotification(StageMsg(calls[i].fn))

C4_Witness ==
    /\ pc = "done"
    /\ Len(calls) >= 2
    /\ calls[Len(calls)].fn = "getLocalHash"
    /\ ~calls[Len(calls)].ok
    /\ Len(webhook) = 1

RebuildCalls == {i \in DOMAIN calls : calls[i].fn = "rebuildNixOS"}

\* C5: a run calls the rebuild at most once, and only directly after
\* pullRepo's fetch and its reset --hard both succeeded in the same run
\* (no pullRepo command of the run failed); it rebuilds the revision the
\* reset checked out.
C5_RebuildOnlyAfterSync ==
    /\ Cardinality(RebuildCalls) <= 1
    /\ \A i \in RebuildCalls :
        /\ i > 2
        /\ calls[i - 2].fn = "pullRepo" /\ calls[i - 2].cmd = "fetch" /\ calls[i - 2].ok
        /\ calls[i - 1].fn = "pullRepo" /\ calls[i - 1].cmd = "reset" /\ calls[i - 1].ok
        /\ calls[i].val = calls[i - 1].val
        /\ \A j \in 1..(i - 1) : calls[j].ok

C5_Witness ==
    /\ pc = "done"
    /\ RebuildCalls # {}
    /\ outcome = "Success"

SaveCalls == {i \in DOMAIN calls : calls[i].fn = "saveConfig"}

\* C6, as claimed: every run that ends in Success has stored the remote tip
\* resolved at comparison time as the last-applied revision, and has sent
\* exactly the success message.
C6_PersistedIsRemoteTip ==
    (pc = "done" /\ outcome = "Success") =>
        /\ configFile = remoteHash
        /\ MsgsSent = <<MsgSuccess>>

\* C6, amended: a run that ends in Success found the tips different and has
\* sent exactly the success message; where saveConfig is called (part_000)
\* it is handed the remote tip resolved at comparison time, and the stored
\* revision equals that tip if the save succeeded; where it is not called
\* (src/main.go) the stored revision is as the run found it.
C6_PersistedIfSaved ==
    (pc = "done" /\ outcome = "Success") =>
        /\ remoteHash # NoRef
        /\ remoteHash # localHash
        /\ MsgsSent = <<MsgSuccess>>
        /\ (build = "part") = (SaveCalls # {})
        /\ \A i \in SaveCalls :
            /\ calls[i].val = remoteHash
            /\ cfgLast = remoteHash
            /\ calls[i].ok => configFile = remoteHash
            /\ ~calls[i].ok => configFile \in {atStart.configFile, Truncated}
        /\ SaveCalls = {} => configFile = atStart.configFile

C6_Witness ==
    /\ pc = "done"
    /\ outcome = "Success"
    /\ SaveCalls # {}
    /\ configFile = remoteHash
    /\ atStart.configFile # remoteHash

\* C7: a step that POSTs to the webhook ends the run with the outcome it
\* already had and the exit status that outcome alone decides, whatever the
\* POST's result, and touches neither the calls made, the repository nor the
\* stored revision: two runs that differ only in delivery agree on all of
\* these.
C7_DeliveryInvisible ==
    [][Len(webhook') = Len(webhook) + 1 =>
          /\ pc' = "done"
          /\ outcome' = outcome
          /\ exit' = (IF outcome = "NotAVCSRepo" THEN "exit1" ELSE "exit0")
          /\ calls' = calls
          /\ configFile' = configFile
          /\ cfgLast' = cfgLast
          /\ repoVars' = repoVars]_vars

C7_Witness ==
    /\ pc = "done"
    /\ outcome = "Success"
    /\ Len(webhook) = 1
    /\ webhook[1].result = "transport_error"
    /\ exit = "exit0"
    /\ logs # <<>>

\* the message main sends for an outcome
OutcomeMsg(tag) ==
    CASE tag = "NotAVCSRepo" -> MsgNotGitRepo
      [] tag = "StatusQueryError" -> MsgStatusFailed
      [] tag = "DirtyWorkingTree" -> MsgSkipping
      [] tag = "ComparatorFailureRemote" -> MsgRemoteFailed
      [] tag = "ComparatorFailureLocal" -> MsgLocalFailed
      [] tag = "SyncFailure" -> MsgPullFailed
      [] tag = "RebuildFailure" -> MsgRebuildFailed
      [] tag = "Success" -> MsgSuccess
      [] OTHER -> "none"

PipelineOutcomes == {"NotAVCSRepo", "StatusQueryError", "DirtyWorkingTree",
                     "ComparatorFailureRemote", "ComparatorFailureLocal",
                     "NoChange", "SyncFailure", "RebuildFailure", "Success"}

\* C8: a run past configuration loading has no outcome until it leaves main
\* and then exactly one of the pipeline's outcomes; it has sent no message
\* if that is NoChange and exactly that outcome's message otherwise; no run
\* ever sends two.
C8_OneOutcomeOneNotification ==
    /\ Len(webhook) <= 1
    /\ pc \notin {"notify", "done"} => outcome = "none" /\ webhook = <<>>
    /\ pc = "notify" => outcome \in PipelineOutcomes \ {"NoChange"} /\ webhook = <<>>
    /\ (pc = "done" /\ outcome # "ConfigurationError") =>
        /\ outcome \in PipelineOutcomes
        /\ IF outcome = "NoChange" THEN webhook = <<>>
           ELSE MsgsSent = <<OutcomeMsg(outcome)>>

C8_Witness ==
    /\ pc = "done"
    /\ runs = MaxRuns
    /\ prev = "NoChange"
    /\ outcome = "SyncFailure"
    /\ Len(webhook) = 1

\* C9: when the rebuild fails after a successful sync, HEAD (and the tracked
\* branch, if checked out) stay at the revision the reset moved them to, the
\* stored revision is as the run found it, the failed rebuild is the run's
\* last call, and exactly the 'rebuild failed' message is sent.
C9_RebuildFailureKeepsSync ==
    outcome = "RebuildFailure" =>
        LET n == Len(calls) IN
        /\ n > 1
        /\ calls[n].fn = "rebuildNixOS" /\ ~calls[n].ok
        /\ calls[n - 1].fn = "pullRepo" /\ calls[n - 1].cmd = "reset" /\ calls[n - 1].ok
        /\ head = calls[n - 1].val
        /\ onBranch => branchRef = calls[n - 1].val
        /\ configFile = atStart.configFile
        /\ OnlyNotification(MsgRebuildFailed)

C9_Witness ==
    /\ pc = "done"
    /\ outcome = "RebuildFailure"
    /\ head # atStart.head
    /\ Len(webhook) = 1

\* the contacts getRemoteHash made with the remote in this run
RemoteContacts ==
    {i \in DOMAIN calls :
        /\ calls[i].fn = "getRemoteHash"
        /\ calls[i].cmd \in {"ls-remote", "fetch"}
        /\ calls[i].ok}

\* C10: the remote hash the gate compares is the tip the remote branch had
\* at a contact (ls-remote or fetch) getRemoteHash made in this run, never a
\* remote-tracking ref left from before; so a run ends NoChange only if the
\* local tip equals the tip the remote had at that contact.
C10_RemoteTipIsFresh ==
    /\ remoteHash # NoRef => \E i \in RemoteContacts : calls[i].val = remoteHash
    /\ outcome = "NoChange" => \E i \in RemoteContacts : calls[i].val = localHash

C10_Witness ==
    /\ pc = "done"
    /\ build = "part"
    /\ events = 0
    /\ atStart.trackingRef = atStart.head
    /\ remoteHash # atStart.trackingRef
    /\ outcome = "Success"

\* nothing outside the run has moved the remote or edited the tree since the
\* run started
NoEventThisRun == events = atStart.events

ResetCalls == {i \in DOMAIN calls : calls[i].cmd = "reset"}

\* C11, as claimed: whenever the hard reset executes, the working tree holds
\* no uncommitted change at that moment, also when somebody edits the tree
\* between the cleanliness check and the reset.
C11_ResetNeverDiscards ==
    [][(pc = "pull_reset" /\ pc' = "rebuild") => changes = {}]_vars

\* C11, amended: the hard reset is only reached in a run whose cleanliness
\* check reported the tree clean, and the tree is still clean when the reset
\* is about to run unless somebody edited it from outside during the run;
\* such an edit is not looked for again before the reset.
C11_ResetAfterCleanCheck ==
    /\ pc \in {"pull_fetch", "pull_reset"} => isClean
    /\ (pc = "pull_reset" /\ NoEventThisRun) => changes = {}
    /\ \A i \in ResetCalls :
        /\ isClean
        /\ \E j \in 1..(i - 1) : calls[j].fn = "isRepoClean" /\ calls[j].ok

C11_Witness ==
    /\ pc = "rebuild"
    /\ ResetCalls # {}
    /\ NoEventThisRun
    /\ runs = MaxRuns
    /\ changes = {}

\* C12: of the pipeline's outcomes only the failed repository validation
\* ends the process fatally (log.Fatalf, exit status 1); a status-query
\* error, a dirty tree, a failed resolution, sync or rebuild each send their
\* message and then return from main, which exits with status 0.
C12_OnlyValidationIsFatal ==
    /\ pc # "done" => exit = "running"
    /\ (pc = "done" /\ outcome \in PipelineOutcomes) =>
        /\ exit = (IF outcome = "NotAVCSRepo" THEN "exit1" ELSE "exit0")
        /\ outcome # "NoChange" => Len(webhook) = 1

C12_Witness ==
    /\ pc = "done"
    /\ outcome = "ComparatorFailureRemote"
    /\ Len(webhook) = 1
    /\ exit = "exit0"
    /\ build = "main"

\* both getRemoteHash and getLocalHash returned a hash, and not the same one
TipsResolvedDiffer ==
    /\ remoteHash # NoRef
    /\ localHash # NoRef
    /\ remoteHash # localHash

PullCalls == {i \in DOMAIN calls : calls[i].fn = "pullRepo"}

Min(S) == CHOOSE x \in S : \A y \in S : x <= y

\* C13: when the tree was found clean and the two tips resolve to different
\* identifiers, the run goes on to pullRepo and never ends NoChange.  The
\* identifiers carry no ancestry: the formula ranges over every pair of
\* different commits, so over a remote that is ahead, one that is behind
\* and one that diverged alike.
C13_DifferentTipsSync ==
    TipsResolvedDiffer =>
        /\ isClean
        /\ outcome # "NoChange"
        /\ pc \in {"gate", "pull_fetch"} \/ PullCalls # {}
        /\ \A i \in PullCalls : i = Min(PullCalls) => calls[i].cmd = "fetch"

\* the local tip is the later commit: the local branch is ahead of the remote
C13_Witness ==
    /\ pc = "done"
    /\ TipsResolvedDiffer
    /\ localHash > remoteHash
    /\ PullCalls # {}
    /\ outcome = "Success"

\* the calls of the comparator that returned a tip
TipResolutions ==
    {i \in DOMAIN calls :
        /\ calls[i].fn \in {"getRemoteHash", "getLocalHash"}
        /\ calls[i].cmd \in {"ls-remote", "rev-parse"}
        /\ calls[i].ok}

\* C14: in every run that reaches the comparator, a git fetch of the tracked
\* branch has completed before the remote tip and before the local tip is
\* resolved.
C14_FetchBeforeTips ==
    \A i \in TipResolutions :
        \E j \in 1..(i - 1) : calls[j].cmd = "fetch" /\ calls[j].ok

\* the order of main's statements
Rank(p) ==
    CASE p = "start" -> 0
      [] p = "validate" -> 1
      [] p = "status" -> 2
      [] p \in {"ls_remote", "remote_fetch"} -> 3
      [] p \in {"local_fetch", "remote_revparse"} -> 4
      [] p \in {"local_branch", "local_head"} -> 5
      [] p = "gate" -> 6
      [] p = "pull_fetch" -> 7
      [] p = "pull_reset" -> 8
      [] p = "rebuild" -> 9
      [] p = "persist" -> 10
      [] p = "notify" -> 11
      [] p = "done" -> 12

\* no command of the run has been issued twice
NoCallRepeated ==
    \A i \in DOMAIN calls : \A j \in 1..(i - 1) :
        calls[i].cmd # calls[j].cmd \/ calls[i].fn # calls[j].fn

\* C15: given that every external call returns, every run reaches its end
\* (main is at its end again and again, so wherever a run stands, its end
\* follows), and it does so in one forward pass: each step moves main
\* strictly forward (only the trigger of the next run goes back to the
\* start), and no command is issued a second time within a run.
C15_SinglePassTerminates ==
    /\ []<>(pc = "done")
    /\ [][(pc' # pc /\ ~(pc = "done" /\ pc' = "start")) => Rank(pc') > Rank(pc)]_vars
    /\ []NoCallRepeated

C15_Witness ==
    /\ pc = "done"
    /\ runs = MaxRuns
    /\ prev = "SyncFailure"
    /\ outcome = "Success"
    /\ Len(calls) > 6

\* nothing outside the runs has moved the remote or edited the tree since
\* the previous run started
NoEventSincePrevRun == events = atStart.prevEvents

\* the configuration was loaded and no call of the run failed
AllCallsOk ==
    /\ outcome # "ConfigurationError"
    /\ \A i \in DOMAIN calls : calls[i].ok

\* C16: a run that ends NoChange, with nothing changed from outside, leaves
\* HEAD, the tracked branch, the working tree and the stored revision as it
\* found them; and the run that follows it, with the remote and the tree
\* still untouched and its calls succeeding, ends NoChange too, with nothing
\* sent to the webhook.
C16_NoChangeIdempotent ==
    /\ (pc = "done" /\ outcome = "NoChange" /\ NoEventThisRun) =>
        /\ head = atStart.head
        /\ branchRef = atStart.branchRef
        /\ changes = atStart.changes
        /\ configFile = atStart.configFile
    /\ (pc = "done" /\ prev = "NoChange" /\ NoEventSincePrevRun /\ AllCallsOk) =>
        /\ outcome = "NoChange"
        /\ webhook = <<>>
        /\ exit = "exit0"

C16_Witness ==
    /\ pc = "done"
    /\ prev = "NoChange"
    /\ NoEventSincePrevRun
    /\ AllCallsOk
    /\ outcome = "NoChange"
    /\ configFile # remoteHash

\* C17: after a run that ended in Success, a following run with the remote
\* and the tree untouched and its calls succeeding resolves a local tip
\* equal to the remote tip and ends NoChange, without pullRepo or a rebuild,
\* whatever branch HEAD is on.
C17_ConvergesAfterSuccess ==
    (pc = "done" /\ prev = "Success" /\ NoEventSincePrevRun /\ AllCallsOk) =>
        /\ localHash = remoteHash
        /\ outcome = "NoChange"
        /\ PullCalls = {}
        /\ RebuildCalls = {}

\* C18: after a run that ended in RebuildFailure, a following run with the
\* remote and the tree untouched and its calls succeeding ends NoChange: it
\* does not rebuild and sends nothing to the webhook.
C18_FailedRevisionNotRetried ==
    (pc = "done" /\ prev = "RebuildFailure" /\ NoEventSincePrevRun /\ AllCallsOk) =>
        /\ outcome = "NoChange"
        /\ RebuildCalls = {}
        /\ webhook = <<>>

\* C19: on every run that ends in Success, the revision git reset --hard put
\* the tree at, and the revision nixos-rebuild ran against, is the remote tip
\* resolved at comparison time, and a revision stored by saveConfig is that
\* same revision, also when origin's branch moves between the comparison and
\* pullRepo's own fetch.
C19_AppliedIsComparedTip ==
    (pc = "done" /\ outcome = "Success") =>
        /\ \A i \in ResetCalls : calls[i].val = remoteHash
        /\ \A i \in RebuildCalls : calls[i].val = remoteHash
        /\ \A i \in SaveCalls : \A j \in ResetCalls :
            calls[i].ok => configFile = calls[j].val

====
